---- MODULE Spec2Model ----
(***************************************************************************)
(* Model of bin/vite-ts-tw.js: a scaffolding CLI that runs a fixed list of *)
(* shell commands, patches two generated files, asks one yes/no question   *)
(* and finishes by installing the dependencies.                            *)
(*                                                                         *)
(* Strings whose content matters are sequences: a reply is a sequence of   *)
(* characters, a file is a sequence of text fragments (tokens).            *)
(***************************************************************************)
EXTENDS Integers, Sequences, FiniteSets, TLC

VARIABLES
    pc,          \* position of the script: the step about to run, or how it ended
    argv,        \* the positional arguments, process.argv.slice(2)
    exitCode,    \* the status the process ended with (meaningful once it ended)
    executed,    \* log of execSync calls: the command and whether it succeeded
    fsLog,       \* log of readFileSync / writeFileSync calls
    configFile,  \* content of <dir>/tailwind.config.ts on disk
    indexCss,    \* content of <dir>/src/index.css on disk
    rlState,     \* the readline interface: "none", "open" or "closed"
    prompts,     \* number of rl.question calls made
    answer,      \* the line the question's callback received
    console      \* what was printed, one tag per console.log / console.error

vars == <<pc, argv, exitCode, executed, fsLog, configFile, indexCss,
          rlState, prompts, answer, console>>

-----------------------------------------------------------------------------
(* Bounds *)

MaxReplyLen == 3
MaxConfigLen == 6
MaxCssLen == 3
MaxPatchRuns == 2

-----------------------------------------------------------------------------
(* Strings *)

RECURSIVE SeqsUpTo(_, _)
SeqsUpTo(S, n) ==
    IF n = 0 THEN {<<>>}
    ELSE SeqsUpTo(S, n - 1) \cup [1..n -> S]

Take(s, n) == SubSeq(s, 1, n)
Drop(s, n) == SubSeq(s, n + 1, Len(s))

\* Characters a typed reply is made of.
ReplyChars == {"y", "Y", "n", "e", "s", " "}
Replies == SeqsUpTo(ReplyChars, MaxReplyLen)

\* String.prototype.trim strips white space at both ends.
WhiteSpace == {" ", "\t"}

RECURSIVE TrimStart(_)
TrimStart(s) ==
    IF s # <<>> /\ Head(s) \in WhiteSpace THEN TrimStart(Tail(s)) ELSE s

RECURSIVE TrimEnd(_)
TrimEnd(s) ==
    IF s # <<>> /\ s[Len(s)] \in WhiteSpace
    THEN TrimEnd(Take(s, Len(s) - 1))
    ELSE s

Trim(s) == TrimEnd(TrimStart(s))

\* String.prototype.toLowerCase on the characters of ReplyChars.
LowerChar(c) ==
    CASE c = "Y" -> "y"
      [] c = "N" -> "n"
      [] c = "E" -> "e"
      [] c = "S" -> "s"
      [] OTHER -> c

ToLowerCase(s) == [i \in 1..Len(s) |-> LowerChar(s[i])]

-----------------------------------------------------------------------------
(* process.argv[2] and the command table *)

Undefined == "undefined"

ArgVectors == {<<>>, <<"">>, <<"my-app">>}

enteredDirName == IF Len(argv) >= 1 THEN argv[1] ELSE Undefined

\* !enteredDirName: undefined and the empty string are falsy.
MissingDirNameNoEmpty(name) == name = Undefined

MissingDirName(name) == name = Undefined \/ name = ""

CommandKeys == {"INSTALL_VITE_TS", "INSTALL_TAILWIND", "INITIALIZE_TAILWIND",
                "INITIALIZE_GIT", "CHANGE_BRANCH", "INSTALL_DEPENDENCIES"}

RUN_COMMAND(dir) ==
    [INSTALL_VITE_TS |-> <<"npm init vite@latest ", dir, " -- --template react-ts">>,
     INSTALL_TAILWIND |-> <<"cd ", dir, " && npm install -D tailwindcss postcss autoprefixer">>,
     INITIALIZE_TAILWIND |-> <<"cd ", dir, " && npx tailwindcss init -p --ts">>,
     INITIALIZE_GIT |-> <<"cd ", dir, " && git init">>,
     CHANGE_BRANCH |-> <<"cd ", dir, " && git branch -M main">>,
     INSTALL_DEPENDENCIES |-> <<"cd ", dir, " && npm install">>]

\* execCommand: one execSync call, logged; a failure is reported on the console.
ExecCalled(key, ok) ==
    Append(executed, [cmd |-> key, command |-> RUN_COMMAND(enteredDirName)[key], ok |-> ok])

ExecOutput(ok) == IF ok THEN <<>> ELSE <<"Failed to execute command">>

\* process.exit(code)
ExitFailure == -1
ExitSuccess == 0

ProcessExit(code) == pc' = "exited" /\ exitCode' = code

\* The script returns with nothing left on the event loop: node ends with
\* the default status.
EventLoopDrained == pc' = "drained" /\ exitCode' = ExitSuccess

Terminated == pc \in {"exited", "drained"}

-----------------------------------------------------------------------------
(* The two patched files *)

\* Fragments of tailwind.config.ts. The pattern /content: \[\]/ is the three
\* fragments "content: ", "[", "]" in a row.
ContentKey == "content: "
LBracket == "["
RBracket == "]"
Globs == "\"./index.html\", \"./src/**/*.{js,ts,jsx,tsx}\""
OtherText == "\n"

ConfigTokens == {ContentKey, LBracket, RBracket, Globs, OtherText}
ConfigContents == SeqsUpTo(ConfigTokens, MaxConfigLen)

ContentPattern == <<ContentKey, LBracket, RBracket>>
ContentReplacement == <<ContentKey, LBracket, Globs, RBracket>>

MatchesAt(data, i) ==
    /\ i + Len(ContentPattern) - 1 <= Len(data)
    /\ SubSeq(data, i, i + Len(ContentPattern) - 1) = ContentPattern

Matches(data) == {i \in 1..Len(data) : MatchesAt(data, i)}

Min(S) == CHOOSE x \in S : \A y \in S : x <= y

\* A variant of the replace below that rewrites every match, as a regular
\* expression with the g flag would.
RECURSIVE ReplaceAllContent(_)
ReplaceAllContent(data) ==
    IF Matches(data) = {} THEN data
    ELSE LET i == Min(Matches(data))
         IN  Take(data, i - 1) \o ContentReplacement
                \o ReplaceAllContent(Drop(data, i + Len(ContentPattern) - 1))

\* A variant of the replace below whose pattern stops at the opening bracket,
\* so that a patched file still matches.
LooseMatches(data) ==
    {i \in 1..(Len(data) - 1) : data[i] = ContentKey /\ data[i + 1] = LBracket}

ReplaceContentLoosePattern(data) ==
    IF LooseMatches(data) = {} THEN data
    ELSE LET i == Min(LooseMatches(data))
         IN  Take(data, i - 1) \o <<ContentKey, LBracket, Globs>> \o Drop(data, i + 1)

\* data.replace(/content: \[\]/, `content: [...]`): the first match only.
ReplaceContent(data) ==
    IF Matches(data) = {} THEN data
    ELSE LET i == Min(Matches(data))
         IN  Take(data, i - 1) \o ContentReplacement
                \o Drop(data, i + Len(ContentPattern) - 1)

\* Fragments of src/index.css.
ImportBase == "@import 'tailwindcss/base';"
ImportComponents == "@import 'tailwindcss/components';"
ImportUtilities == "@import 'tailwindcss/utilities';"
NewLine == "\n"
BodyRule == "body{}"

CssTokens == {ImportBase, ImportComponents, ImportUtilities, NewLine, BodyRule}
CssContents == SeqsUpTo(CssTokens, MaxCssLen)

ImportDirectives ==
    <<ImportBase, NewLine, ImportComponents, NewLine, ImportUtilities, NewLine, NewLine>>

IsPrefix(p, s) == Len(p) <= Len(s) /\ Take(s, Len(p)) = p

\* A variant of the prepend below that skips a file already carrying the
\* directives.
PrependDirectivesOnce(data) ==
    IF IsPrefix(ImportDirectives, data) THEN data ELSE ImportDirectives \o data

\* `@import ...;\n@import ...;\n@import ...;\n\n${data}`
PrependDirectives(data) == ImportDirectives \o data

\* What the two files hold when the script reads them: as generated, or as
\* left by an earlier run in the same directory.
GeneratedConfig == <<OtherText, ContentKey, LBracket, RBracket, OtherText>>
DiskConfigs == {GeneratedConfig, ReplaceContent(GeneratedConfig)}

GeneratedIndexCss == <<BodyRule>>
DiskCss == {GeneratedIndexCss, PrependDirectives(GeneratedIndexCss)}

\* fs.writeFileSync that throws: the file is as it was (open failed) or holds
\* a proper prefix of the new content (the write failed part-way).
FailedWriteLeaves(old, new) == {old} \cup {Take(new, k) : k \in 0..(Len(new) - 1)}

\* One readFileSync or writeFileSync call: the data read or handed to the write.
FsCall(op, file, ok, data) == [op |-> op, file |-> file, ok |-> ok, data |-> data]

-----------------------------------------------------------------------------
(* The script, one action per blocking step *)

Init ==
    /\ pc = "start"
    /\ argv \in ArgVectors
    /\ exitCode = 0
    /\ executed = <<>>
    /\ fsLog = <<>>
    /\ configFile \in DiskConfigs
    /\ indexCss \in DiskCss
    /\ rlState = "none"
    /\ prompts = 0
    /\ answer = <<>>
    /\ console = <<>>

\* Lines 8-12, the readline interface of lines 42-45, the opening message.
Start ==
    /\ pc = "start"
    /\ IF MissingDirName(enteredDirName)
       THEN /\ console' = Append(console, "Please enter the directory name")
            /\ ProcessExit(ExitFailure)
            /\ UNCHANGED rlState
       ELSE /\ rlState' = "open"
            /\ console' = Append(console, "Creating a new React TypeScript project")
            /\ pc' = "INSTALL_VITE_TS"
            /\ UNCHANGED exitCode
    /\ UNCHANGED <<argv, executed, fsLog, configFile, indexCss, prompts, answer>>

\* A variant that gives up when the project cannot be created.
InstallViteTsFailFast ==
    /\ pc = "INSTALL_VITE_TS"
    /\ \E ok \in BOOLEAN :
        /\ executed' = ExecCalled("INSTALL_VITE_TS", ok)
        /\ IF ~ok
           THEN /\ console' = console \o ExecOutput(ok) \o
                      <<"Failed to create the project. Please do it manually.">>
                /\ ProcessExit(ExitFailure)
           ELSE /\ console' = Append(console, "React TypeScript project created")
                /\ pc' = "INSTALL_TAILWIND"
                /\ UNCHANGED exitCode
    /\ UNCHANGED <<argv, fsLog, configFile, indexCss, rlState, prompts, answer>>

InstallViteTs ==
    /\ pc = "INSTALL_VITE_TS"
    /\ \E ok \in BOOLEAN :
        /\ executed' = ExecCalled("INSTALL_VITE_TS", ok)
        /\ console' = console \o ExecOutput(ok) \o
              <<IF ok THEN "React TypeScript project created"
                      ELSE "Failed to create the project. Please do it manually.">>
    /\ pc' = "INSTALL_TAILWIND"
    /\ UNCHANGED <<argv, exitCode, fsLog, configFile, indexCss, rlState, prompts, answer>>

\* A variant that runs the command a second time when it fails.
InstallTailwindRetryOnce ==
    /\ pc = "INSTALL_TAILWIND"
    /\ \E ok \in BOOLEAN, again \in BOOLEAN :
        /\ executed' =
              IF ok THEN ExecCalled("INSTALL_TAILWIND", TRUE)
              ELSE ExecCalled("INSTALL_TAILWIND", FALSE) \o
                      <<[cmd |-> "INSTALL_TAILWIND",
                         command |-> RUN_COMMAND(enteredDirName)["INSTALL_TAILWIND"],
                         ok |-> again]>>
        /\ console' = console \o ExecOutput(ok) \o
              <<IF ok \/ again THEN "Installed TailwindCSS"
                      ELSE "Failed to install tailwindcss. Please do it manually.">>
    /\ pc' = "INITIALIZE_TAILWIND"
    /\ UNCHANGED <<argv, exitCode, fsLog, configFile, indexCss, rlState, prompts, answer>>

InstallTailwind ==
    /\ pc = "INSTALL_TAILWIND"
    /\ \E ok \in BOOLEAN :
        /\ executed' = ExecCalled("INSTALL_TAILWIND", ok)
        /\ console' = console \o ExecOutput(ok) \o
              <<IF ok THEN "Installed TailwindCSS"
                      ELSE "Failed to install tailwindcss. Please do it manually.">>
    /\ pc' = "INITIALIZE_TAILWIND"
    /\ UNCHANGED <<argv, exitCode, fsLog, configFile, indexCss, rlState, prompts, answer>>

\* A variant that only warns when the command fails.
ExecuteTailwindInitializationWarnOnly ==
    /\ pc = "INITIALIZE_TAILWIND"
    /\ \E ok \in BOOLEAN :
        /\ executed' = ExecCalled("INITIALIZE_TAILWIND", ok)
        /\ console' = console \o ExecOutput(ok) \o
              <<IF ok THEN "Initialized TailwindCSS"
                      ELSE "Failed to initialize Tailwind CSS. Please do it manually.">>
    /\ pc' = "updateTailwindConfig"
    /\ UNCHANGED <<argv, exitCode, fsLog, configFile, indexCss, rlState, prompts, answer>>

ExecuteTailwindInitialization ==
    /\ pc = "INITIALIZE_TAILWIND"
    /\ \E ok \in BOOLEAN :
        /\ executed' = ExecCalled("INITIALIZE_TAILWIND", ok)
        /\ IF ~ok
           THEN /\ console' = console \o ExecOutput(ok) \o
                      <<"Failed to initialize Tailwind CSS. Please do it manually.">>
                /\ ProcessExit(ExitFailure)
           ELSE /\ console' = Append(console, "Initialized TailwindCSS")
                /\ pc' = "updateTailwindConfig"
                /\ UNCHANGED exitCode
    /\ UNCHANGED <<argv, fsLog, configFile, indexCss, rlState, prompts, answer>>

IoOutcomes == {"ok", "readFails", "writeFails"}

\* A variant whose catch block reports the error and goes on.
UpdateTailwindConfigKeepsGoing ==
    /\ pc = "updateTailwindConfig"
    /\ \E io \in IoOutcomes :
        CASE io = "readFails" ->
                /\ fsLog' = Append(fsLog, FsCall("read", "tailwind.config.ts", FALSE, <<>>))
                /\ console' = Append(console, "Error updating tailwind.config.ts")
                /\ UNCHANGED configFile
          [] io = "writeFails" ->
                /\ fsLog' = fsLog \o <<FsCall("read", "tailwind.config.ts", TRUE, configFile),
                                       FsCall("write", "tailwind.config.ts", FALSE, ReplaceContent(configFile))>>
                /\ configFile' \in FailedWriteLeaves(configFile, ReplaceContent(configFile))
                /\ console' = Append(console, "Error updating tailwind.config.ts")
          [] io = "ok" ->
                /\ fsLog' = fsLog \o <<FsCall("read", "tailwind.config.ts", TRUE, configFile),
                                       FsCall("write", "tailwind.config.ts", TRUE, ReplaceContent(configFile))>>
                /\ configFile' = ReplaceContent(configFile)
                /\ console' = Append(console, "Updated tailwind.config.ts")
    /\ pc' = "updateIndexCss"
    /\ UNCHANGED <<argv, exitCode, executed, indexCss, rlState, prompts, answer>>

UpdateTailwindConfig ==
    /\ pc = "updateTailwindConfig"
    /\ \E io \in IoOutcomes :
        CASE io = "readFails" ->
                /\ fsLog' = Append(fsLog, FsCall("read", "tailwind.config.ts", FALSE, <<>>))
                /\ console' = Append(console, "Error updating tailwind.config.ts")
                /\ ProcessExit(ExitFailure)
                /\ UNCHANGED configFile
          [] io = "writeFails" ->
                /\ fsLog' = fsLog \o <<FsCall("read", "tailwind.config.ts", TRUE, configFile),
                                       FsCall("write", "tailwind.config.ts", FALSE, ReplaceContent(configFile))>>
                /\ configFile' \in FailedWriteLeaves(configFile, ReplaceContent(configFile))
                /\ console' = Append(console, "Error updating tailwind.config.ts")
                /\ ProcessExit(ExitFailure)
          [] io = "ok" ->
                /\ fsLog' = fsLog \o <<FsCall("read", "tailwind.config.ts", TRUE, configFile),
                                       FsCall("write", "tailwind.config.ts", TRUE, ReplaceContent(configFile))>>
                /\ configFile' = ReplaceContent(configFile)
                /\ console' = Append(console, "Updated tailwind.config.ts")
                /\ pc' = "updateIndexCss"
                /\ UNCHANGED exitCode
    /\ UNCHANGED <<argv, executed, indexCss, rlState, prompts, answer>>

\* Up to the call of the callback, which is promptUser.
UpdateIndexCss ==
    /\ pc = "updateIndexCss"
    /\ \E io \in IoOutcomes :
        CASE io = "readFails" ->
                /\ fsLog' = Append(fsLog, FsCall("read", "index.css", FALSE, <<>>))
                /\ console' = Append(console, "Error updating index.css")
                /\ ProcessExit(ExitFailure)
                /\ UNCHANGED indexCss
          [] io = "writeFails" ->
                /\ fsLog' = fsLog \o <<FsCall("read", "index.css", TRUE, indexCss),
                                       FsCall("write", "index.css", FALSE, PrependDirectives(indexCss))>>
                /\ indexCss' \in FailedWriteLeaves(indexCss, PrependDirectives(indexCss))
                /\ console' = Append(console, "Error updating index.css")
                /\ ProcessExit(ExitFailure)
          [] io = "ok" ->
                /\ fsLog' = fsLog \o <<FsCall("read", "index.css", TRUE, indexCss),
                                       FsCall("write", "index.css", TRUE, PrependDirectives(indexCss))>>
                /\ indexCss' = PrependDirectives(indexCss)
                /\ console' = Append(console, "Updated index.css")
                /\ pc' = "promptUser"
                /\ UNCHANGED exitCode
    /\ UNCHANGED <<argv, executed, configFile, rlState, prompts, answer>>

\* console.log() and rl.question(...): the question is written and the
\* script waits for a line.
PromptUser ==
    /\ pc = "promptUser"
    /\ rlState = "open"
    /\ console' = console \o <<"", "Do you want to initialize Git in the project? (Y/n): ">>
    /\ prompts' = prompts + 1
    /\ pc' = "question"
    /\ UNCHANGED <<argv, exitCode, executed, fsLog, configFile, indexCss, rlState, answer>>

\* A variant that compares the reply as typed.
ShouldInitializeGitAsTyped(reply) == reply = <<"y">> \/ reply = <<>>

\* answer.trim().toLowerCase() === "y" || answer.trim() === ""
ShouldInitializeGit(reply) ==
    ToLowerCase(Trim(reply)) = <<"y">> \/ Trim(reply) = <<>>

\* A variant whose skip branch forgets to go on to continueSetup.
AnswerReceivedSkipStops ==
    /\ pc = "question"
    /\ \E line \in Replies :
        /\ answer' = line
        /\ rlState' = "closed"
        /\ IF ShouldInitializeGit(line)
           THEN /\ pc' = "INITIALIZE_GIT"
                /\ UNCHANGED <<console, exitCode>>
           ELSE /\ console' = Append(console, "Skipped Git initialization.")
                /\ EventLoopDrained
    /\ UNCHANGED <<argv, executed, fsLog, configFile, indexCss, prompts>>

\* A variant that never closes the readline interface.
AnswerReceivedLeavesOpen ==
    /\ pc = "question"
    /\ \E line \in Replies :
        /\ answer' = line
        /\ IF ShouldInitializeGit(line)
           THEN /\ pc' = "INITIALIZE_GIT"
                /\ UNCHANGED console
           ELSE /\ console' = Append(console, "Skipped Git initialization.")
                /\ pc' = "continueSetup"
    /\ UNCHANGED <<argv, exitCode, executed, fsLog, configFile, indexCss, rlState, prompts>>

\* The question's callback, lines 144-155, up to the call it ends with.
AnswerReceived ==
    /\ pc = "question"
    /\ \E line \in Replies :
        /\ answer' = line
        /\ rlState' = "closed"
        /\ IF ShouldInitializeGit(line)
           THEN /\ pc' = "INITIALIZE_GIT"
                /\ UNCHANGED console
           ELSE /\ console' = Append(console, "Skipped Git initialization.")
                /\ pc' = "continueSetup"
    /\ UNCHANGED <<argv, exitCode, executed, fsLog, configFile, indexCss, prompts>>

\* A variant that only warns when git init fails.
ExecuteGitInitializationWarnOnly ==
    /\ pc = "INITIALIZE_GIT"
    /\ \E ok \in BOOLEAN :
        /\ executed' = ExecCalled("INITIALIZE_GIT", ok)
        /\ console' = console \o ExecOutput(ok) \o
              <<IF ok THEN "Initialized Git"
                      ELSE "Failed to initialize Git. Please do it manually.">>
    /\ pc' = "CHANGE_BRANCH"
    /\ UNCHANGED <<argv, exitCode, fsLog, configFile, indexCss, rlState, prompts, answer>>

\* executeGitInitialization, its first command (lines 166-171).
ExecuteGitInitialization ==
    /\ pc = "INITIALIZE_GIT"
    /\ \E ok \in BOOLEAN :
        /\ executed' = ExecCalled("INITIALIZE_GIT", ok)
        /\ IF ~ok
           THEN /\ console' = console \o ExecOutput(ok) \o
                      <<"Failed to initialize Git. Please do it manually.">>
                /\ ProcessExit(ExitFailure)
           ELSE /\ console' = Append(console, "Initialized Git")
                /\ pc' = "CHANGE_BRANCH"
                /\ UNCHANGED exitCode
    /\ UNCHANGED <<argv, fsLog, configFile, indexCss, rlState, prompts, answer>>

\* executeGitInitialization, its second command (lines 173-178). When the
\* command fails the function returns and nothing is left to run.
ChangeBranch ==
    /\ pc = "CHANGE_BRANCH"
    /\ \E ok \in BOOLEAN :
        /\ executed' = ExecCalled("CHANGE_BRANCH", ok)
        /\ IF ~ok
           THEN /\ console' = console \o ExecOutput(ok) \o
                      <<"Failed to change the branch. Please do it manually.">>
                /\ EventLoopDrained
           ELSE /\ console' = Append(console, "Changed the branch")
                /\ pc' = "continueSetup"
                /\ UNCHANGED exitCode
    /\ UNCHANGED <<argv, fsLog, configFile, indexCss, rlState, prompts, answer>>

Banner == "banner"
SuccessMessage == "Successfully created a new React project with Vite and TailwindCSS"

\* A variant that gives up when npm install fails.
ContinueSetupFailFast ==
    /\ pc = "continueSetup"
    /\ \E ok \in BOOLEAN :
        /\ executed' = ExecCalled("INSTALL_DEPENDENCIES", ok)
        /\ IF ~ok
           THEN /\ console' = console \o ExecOutput(ok) \o
                      <<"Failed to install dependencies. Please do it manually.">>
                /\ ProcessExit(ExitFailure)
           ELSE /\ console' = console \o
                      <<"Installed the dependencies", "\n\n", Banner, SuccessMessage>>
                /\ ProcessExit(ExitSuccess)
    /\ UNCHANGED <<argv, fsLog, configFile, indexCss, rlState, prompts, answer>>

\* A variant that prints the banner only when npm install succeeded.
ContinueSetupBannerOnSuccessOnly ==
    /\ pc = "continueSetup"
    /\ \E ok \in BOOLEAN :
        /\ executed' = ExecCalled("INSTALL_DEPENDENCIES", ok)
        /\ console' = console \o ExecOutput(ok) \o
              (IF ok THEN <<"Installed the dependencies", "\n\n", Banner, SuccessMessage>>
                     ELSE <<"Failed to install dependencies. Please do it manually.">>)
    /\ ProcessExit(ExitSuccess)
    /\ UNCHANGED <<argv, fsLog, configFile, indexCss, rlState, prompts, answer>>

ContinueSetup ==
    /\ pc = "continueSetup"
    /\ \E ok \in BOOLEAN :
        /\ executed' = ExecCalled("INSTALL_DEPENDENCIES", ok)
        /\ console' = console \o ExecOutput(ok) \o
              <<IF ok THEN "Installed the dependencies"
                      ELSE "Failed to install dependencies. Please do it manually.",
                "\n\n", Banner, SuccessMessage>>
    /\ ProcessExit(ExitSuccess)
    /\ UNCHANGED <<argv, fsLog, configFile, indexCss, rlState, prompts, answer>>

Next ==
    \/ Start
    \/ InstallViteTs
    \/ InstallTailwind
    \/ ExecuteTailwindInitialization
    \/ UpdateTailwindConfig
    \/ UpdateIndexCss
    \/ PromptUser
    \/ AnswerReceived
    \/ ExecuteGitInitialization
    \/ ChangeBranch
    \/ ContinueSetup

Spec == Init /\ [][Next]_vars

-----------------------------------------------------------------------------
(* The two patches on their own: the body of updateTailwindConfig, and of  *)
(* updateIndexCss, applied to any file of the bounded sets, and applied    *)
(* again to the file it left (a second run in the same directory).         *)

WritesTo(file) ==
    Len(SelectSeq(fsLog, LAMBDA c : c.op = "write" /\ c.file = file /\ c.ok))

ExecRecord(dir, key, ok) ==
    [cmd |-> key, command |-> RUN_COMMAND(dir)[key], ok |-> ok]

\* What the script has done when it enters updateTailwindConfig after three
\* successful commands.
AfterTailwindInitialization ==
    /\ argv = <<"my-app">>
    /\ exitCode = 0
    /\ executed = <<ExecRecord("my-app", "INSTALL_VITE_TS", TRUE),
                    ExecRecord("my-app", "INSTALL_TAILWIND", TRUE),
                    ExecRecord("my-app", "INITIALIZE_TAILWIND", TRUE)>>
    /\ rlState = "open"
    /\ prompts = 0
    /\ answer = <<>>

ConsoleAfterTailwindInitialization ==
    <<"Creating a new React TypeScript project",
      "React TypeScript project created",
      "Installed TailwindCSS",
      "Initialized TailwindCSS">>

InitConfigPatch ==
    /\ pc = "updateTailwindConfig"
    /\ AfterTailwindInitialization
    /\ fsLog = <<>>
    /\ console = ConsoleAfterTailwindInitialization
    /\ configFile \in ConfigContents
    /\ indexCss = GeneratedIndexCss

\* Lines 89-99: read, replace, write back, report.
ApplyConfigPatch ==
    /\ pc = "updateTailwindConfig"
    /\ WritesTo("tailwind.config.ts") < MaxPatchRuns
    /\ fsLog' = fsLog \o <<FsCall("read", "tailwind.config.ts", TRUE, configFile),
                           FsCall("write", "tailwind.config.ts", TRUE, ReplaceContent(configFile))>>
    /\ configFile' = ReplaceContent(configFile)
    /\ console' = Append(console, "Updated tailwind.config.ts")
    /\ UNCHANGED <<pc, argv, exitCode, executed, indexCss, rlState, prompts, answer>>

NextConfigPatch == ApplyConfigPatch

SpecConfigPatch == InitConfigPatch /\ [][NextConfigPatch]_vars

InitCssPatch ==
    /\ pc = "updateIndexCss"
    /\ AfterTailwindInitialization
    /\ fsLog = <<FsCall("read", "tailwind.config.ts", TRUE, GeneratedConfig),
                 FsCall("write", "tailwind.config.ts", TRUE, ReplaceContent(GeneratedConfig))>>
    /\ console = Append(ConsoleAfterTailwindInitialization, "Updated tailwind.config.ts")
    /\ configFile = ReplaceContent(GeneratedConfig)
    /\ indexCss \in CssContents

\* Lines 117-124: read, prepend, write back, report.
ApplyCssPatch ==
    /\ pc = "updateIndexCss"
    /\ WritesTo("index.css") < MaxPatchRuns
    /\ fsLog' = fsLog \o <<FsCall("read", "index.css", TRUE, indexCss),
                           FsCall("write", "index.css", TRUE, PrependDirectives(indexCss))>>
    /\ indexCss' = PrependDirectives(indexCss)
    /\ console' = Append(console, "Updated index.css")
    /\ UNCHANGED <<pc, argv, exitCode, executed, configFile, rlState, prompts, answer>>

NextCssPatch == ApplyCssPatch

SpecCssPatch == InitCssPatch /\ [][NextCssPatch]_vars

-----------------------------------------------------------------------------
(* What a state says about the run so far *)

Attempted(key) == \E i \in 1..Len(executed) : executed[i].cmd = key
Failed(key) == \E i \in 1..Len(executed) : executed[i].cmd = key /\ ~executed[i].ok
Succeeded(key) == \E i \in 1..Len(executed) : executed[i].cmd = key /\ executed[i].ok
OnlyFailed(key) ==
    /\ Failed(key)
    /\ \A i \in 1..Len(executed) : executed[i].cmd # key => executed[i].ok

Printed(msg) == \E i \in 1..Len(console) : console[i] = msg
Touched(file) == \E i \in 1..Len(fsLog) : fsLog[i].file = file
IoFailed(file) == \E i \in 1..Len(fsLog) : fsLog[i].file = file /\ ~fsLog[i].ok

ReadsOf(file) == SelectSeq(fsLog, LAMBDA c : c.op = "read" /\ c.file = file /\ c.ok)
WritesOf(file) == SelectSeq(fsLog, LAMBDA c : c.op = "write" /\ c.file = file /\ c.ok)

NoDirName == Len(argv) = 0 \/ argv[1] = ""
NonZeroExit == Terminated /\ exitCode # 0
Completed == pc = "exited" /\ exitCode = 0 /\ Printed(Banner)

-----------------------------------------------------------------------------
(* Claims *)

C3_NoDirNameExitsAtOnce ==
    NoDirName
        => /\ executed = <<>>
           /\ fsLog = <<>>
           /\ prompts = 0
           /\ rlState = "none"
           /\ pc \in {"start", "exited"}
           /\ pc = "exited" => exitCode # 0

C3_Witness ==
    /\ argv = <<"">>
    /\ pc = "exited"
    /\ exitCode = -1
    /\ Printed("Please enter the directory name")

\* C4: when tailwind init fails the process exits with a non-zero status in
\* that step; neither file is read or written, no question is asked, and none
\* of git init, branch rename, npm install is executed.
C4_TailwindInitFailureIsFatal ==
    Failed("INITIALIZE_TAILWIND")
        => /\ pc = "exited"
           /\ exitCode # 0
           /\ fsLog = <<>>
           /\ prompts = 0
           /\ ~Attempted("INITIALIZE_GIT")
           /\ ~Attempted("CHANGE_BRANCH")
           /\ ~Attempted("INSTALL_DEPENDENCIES")

C4_Witness ==
    /\ Failed("INITIALIZE_TAILWIND")
    /\ pc = "exited"
    /\ Len(executed) = 3

\* The branch the callback took, read off the state it left.
Answered == rlState = "closed"
SkipSelected == Answered /\ Printed("Skipped Git initialization.")
InitializeSelected == Answered /\ ~SkipSelected

NonBlank(reply) == SelectSeq(reply, LAMBDA c : c \notin WhiteSpace)

\* C5, as stated: the initialize branch is taken exactly when the reply is
\* empty or is "y" or "Y"; any other reply skips; one question at most.
C5_InitializeIffEmptyOrY ==
    /\ prompts <= 1
    /\ Answered =>
          (InitializeSelected <=> answer \in {<<>>, <<"y">>, <<"Y">>})

\* C5, amended: the initialize branch is taken exactly when the reply, with
\* the white space around it removed, is empty or is "y" or "Y" (so a blank
\* reply and " y " initialize too); any other reply skips; one question at most.
C5_InitializeIffTrimmedEmptyOrY ==
    /\ prompts <= 1
    /\ Answered =>
          /\ prompts = 1
          /\ InitializeSelected <=> NonBlank(answer) \in {<<>>, <<"y">>, <<"Y">>}
          /\ InitializeSelected => (Attempted("INITIALIZE_GIT") \/ pc = "INITIALIZE_GIT")
          /\ SkipSelected => ~Attempted("INITIALIZE_GIT") /\ pc # "INITIALIZE_GIT"

C5_Witness ==
    /\ answer = <<" ", "Y">>
    /\ pc = "INITIALIZE_GIT"
    /\ prompts = 1

ConfigReads == ReadsOf("tailwind.config.ts")
ConfigWrites == WritesOf("tailwind.config.ts")
CssReads == ReadsOf("index.css")
CssWrites == WritesOf("index.css")

\* C6, as stated: for any config file, patching the patched file again writes
\* the same content: patch(patch(f)) = patch(f).
C6_ConfigPatchIdempotent ==
    \A i \in 2..Len(ConfigWrites) : ConfigWrites[i].data = ConfigWrites[1].data

\* C6, amended: for any config file holding the pattern at most once,
\* patching the patched file again writes the same content, and the file is
\* written on every application.
C6_ConfigPatchIdempotentOnSingleMatch ==
    /\ Len(ConfigWrites) = Len(ConfigReads)
    /\ (ConfigReads # <<>> /\ Cardinality(Matches(ConfigReads[1].data)) <= 1)
          => /\ \A i \in 2..Len(ConfigWrites) :
                    /\ ConfigReads[i].data = ConfigWrites[1].data
                    /\ ConfigWrites[i].data = ConfigWrites[1].data
             /\ configFile = ConfigWrites[1].data

C6_Witness ==
    /\ Len(ConfigWrites) = 2
    /\ Cardinality(Matches(ConfigReads[1].data)) = 1
    /\ ConfigWrites[1].data # ConfigReads[1].data
    /\ ConfigWrites[2].data = ConfigWrites[1].data

\* C7: each application of the stylesheet patch writes the base, components
\* and utilities import lines in that order, each ended by a line break, then
\* one blank line, then the content it read, unchanged; nothing guards the
\* prepend, so two applications leave the import block twice.
C7_StylesheetPrepend ==
    /\ \A i \in 1..Len(CssWrites) :
          LET d == CssReads[i].data
              w == CssWrites[i].data
          IN  /\ Len(w) = Len(d) + 7
              /\ w[1] = ImportBase /\ w[2] = NewLine
              /\ w[3] = ImportComponents /\ w[4] = NewLine
              /\ w[5] = ImportUtilities /\ w[6] = NewLine
              /\ w[7] = NewLine
              /\ \A j \in 1..Len(d) : w[7 + j] = d[j]
    /\ \A i \in 2..Len(CssWrites) : CssReads[i].data = CssWrites[i - 1].data
    /\ CssWrites # <<>> => indexCss = CssWrites[Len(CssWrites)].data

C7_Witness ==
    /\ Len(CssWrites) = 2
    /\ CssReads[1].data = <<BodyRule>>
    /\ indexCss = ImportDirectives \o ImportDirectives \o <<BodyRule>>

\* C8: a failed read or write of the config file ends the process with a
\* non-zero status in that step: the stylesheet is not touched, no question
\* is asked, no further command runs. A failed read or write of the
\* stylesheet does the same: no question, no further command.
C8_FileErrorIsFatal ==
    /\ IoFailed("tailwind.config.ts")
          => /\ pc = "exited" /\ exitCode # 0
             /\ ~Touched("index.css")
             /\ prompts = 0
             /\ Len(executed) = 3 /\ executed[3].cmd = "INITIALIZE_TAILWIND"
    /\ IoFailed("index.css")
          => /\ pc = "exited" /\ exitCode # 0
             /\ prompts = 0
             /\ Len(executed) = 3 /\ executed[3].cmd = "INITIALIZE_TAILWIND"

C8_Witness ==
    /\ IoFailed("tailwind.config.ts")
    /\ fsLog[Len(fsLog)].op = "write"
    /\ pc = "exited"

\* C9: the step taken from Continue Setup runs npm install, prints the banner
\* and exits with status 0, whether npm install succeeds or fails and
\* whatever failed before.
C9_ContinueSetupAlwaysCompletes ==
    [][pc = "continueSetup"
          => /\ pc' = "exited"
             /\ exitCode' = 0
             /\ executed'[Len(executed')].cmd = "INSTALL_DEPENDENCIES"
             /\ Len(executed') = Len(executed) + 1
             /\ console'[Len(console') - 1] = Banner
             /\ console'[Len(console')] = SuccessMessage]_vars

C9_Witness ==
    /\ Completed
    /\ Failed("INSTALL_DEPENDENCIES")
    /\ Failed("INSTALL_VITE_TS")
    /\ Failed("INSTALL_TAILWIND")

\* C10, as stated: when git init succeeds and the branch rename fails, a run
\* that has ended attempted npm install, printed the banner and exited 0.
C10_RenameFailureStillCompletes ==
    (Terminated /\ Succeeded("INITIALIZE_GIT") /\ Failed("CHANGE_BRANCH"))
        => (Attempted("INSTALL_DEPENDENCIES") /\ Completed)

\* C11, as stated: a run never ends except by process.exit: a state the
\* script has not left by process.exit still has a step to take.
C11_EveryRunEndsByProcessExit == pc = "exited" \/ ENABLED Next

CommandsRun == [i \in 1..Len(executed) |-> executed[i].cmd]

\* C12: a failed create-project is followed by install-tailwind, and a failed
\* install-tailwind by tailwind init: after either command, whatever its
\* result, the script is at the same next step with the process still running.
C12_EarlyFailuresDoNotStop ==
    /\ Failed("INSTALL_VITE_TS")
          => (pc = "INSTALL_TAILWIND" \/ Attempted("INSTALL_TAILWIND"))
    /\ Failed("INSTALL_TAILWIND")
          => (pc = "INITIALIZE_TAILWIND" \/ Attempted("INITIALIZE_TAILWIND"))
    /\ CommandsRun = <<"INSTALL_VITE_TS">> => pc = "INSTALL_TAILWIND"
    /\ CommandsRun = <<"INSTALL_VITE_TS", "INSTALL_TAILWIND">>
          => pc = "INITIALIZE_TAILWIND"

C12_Witness ==
    /\ Failed("INSTALL_VITE_TS")
    /\ Failed("INSTALL_TAILWIND")
    /\ Succeeded("INITIALIZE_TAILWIND")
    /\ Succeeded("CHANGE_BRANCH")
    /\ Completed

CommandOrder ==
    <<"INSTALL_VITE_TS", "INSTALL_TAILWIND", "INITIALIZE_TAILWIND",
      "INITIALIZE_GIT", "CHANGE_BRANCH", "INSTALL_DEPENDENCIES">>

Rank(key) == CHOOSE r \in 1..Len(CommandOrder) : CommandOrder[r] = key

\* C13: the commands run are a subsequence of the fixed order, each run at
\* most once: any command run later in a run comes later in the order.
C13_CommandsInFixedOrderOnce ==
    /\ \A i \in 1..Len(executed) : executed[i].cmd \in CommandKeys
    /\ \A i, j \in 1..Len(executed) :
          i < j => Rank(executed[i].cmd) < Rank(executed[j].cmd)

C13_Witness ==
    /\ CommandsRun = CommandOrder
    /\ Failed("INSTALL_TAILWIND")
    /\ Failed("INSTALL_DEPENDENCIES")

WriteCalls(file) == SelectSeq(fsLog, LAMBDA c : c.op = "write" /\ c.file = file)

FirstCall(op, file) ==
    CHOOSE i \in 1..Len(fsLog) :
        /\ fsLog[i].op = op /\ fsLog[i].file = file
        /\ \A j \in 1..(i - 1) : ~(fsLog[j].op = op /\ fsLog[j].file = file)

\* C14: the config file is written at most once, and only after tailwind init
\* succeeded; the stylesheet is written at most once, and only after a
\* successful write of the config file; the question is asked only after a
\* successful write of the stylesheet.
C14_PatchesAndPromptInSequence ==
    /\ Len(WriteCalls("tailwind.config.ts")) <= 1
    /\ Len(WriteCalls("index.css")) <= 1
    /\ WriteCalls("tailwind.config.ts") # <<>> => Succeeded("INITIALIZE_TAILWIND")
    /\ WriteCalls("index.css") # <<>>
          => /\ Len(ConfigWrites) = 1
             /\ FirstCall("write", "tailwind.config.ts") < FirstCall("write", "index.css")
    /\ prompts > 0 => Len(CssWrites) = 1

C14_Witness ==
    /\ pc = "question"
    /\ prompts = 1
    /\ Len(ConfigWrites) = 1
    /\ Len(CssWrites) = 1

\* C15: after a reply that selects the skip branch neither git init nor the
\* branch rename is ever run, and the script goes on to Continue Setup: it is
\* about to run npm install, or has run it, printed the banner and exited 0.
C15_SkipGoesToContinueSetup ==
    SkipSelected
        => /\ ~Attempted("INITIALIZE_GIT")
           /\ ~Attempted("CHANGE_BRANCH")
           /\ \/ pc = "continueSetup"
              \/ Attempted("INSTALL_DEPENDENCIES") /\ Completed

C15_Witness ==
    /\ SkipSelected
    /\ answer = <<"n">>
    /\ Attempted("INSTALL_DEPENDENCIES")
    /\ Completed

\* C16: the branch rename is run only when git init was run and succeeded;
\* after a failed git init it is never run.
C16_RenameOnlyAfterGitInit ==
    /\ Attempted("CHANGE_BRANCH") => Succeeded("INITIALIZE_GIT")
    /\ Failed("INITIALIZE_GIT") => ~Attempted("CHANGE_BRANCH")

C16_Witness ==
    /\ Attempted("CHANGE_BRANCH")
    /\ Succeeded("INITIALIZE_GIT")
    /\ Terminated

\* Whether position k is the leftmost place where the pattern stands in d.
LeftmostMatch(d, k) == MatchesAt(d, k) /\ \A j \in 1..(k - 1) : ~MatchesAt(d, j)

\* C17: each application of the config patch writes the content it read with
\* the leftmost occurrence of the pattern, and nothing else, replaced by the
\* two-element list: the text before it and the text after it, later
\* occurrences included, are kept; with no occurrence the content is
\* written back as read.
C17_ConfigPatchFirstOccurrenceOnly ==
    /\ Len(ConfigWrites) = Len(ConfigReads)
    /\ \A i \in 1..Len(ConfigWrites) :
          LET d == ConfigReads[i].data
              w == ConfigWrites[i].data
          IN  /\ (\A k \in 1..Len(d) : ~MatchesAt(d, k)) => w = d
              /\ \A k \in 1..Len(d) :
                    LeftmostMatch(d, k)
                        => /\ Len(w) = Len(d) + 1
                           /\ \A j \in 1..(k - 1) : w[j] = d[j]
                           /\ w[k] = ContentKey
                           /\ w[k + 1] = LBracket
                           /\ w[k + 2] = Globs
                           /\ w[k + 3] = RBracket
                           /\ \A j \in (k + 3)..Len(d) : w[j + 1] = d[j]
    /\ ConfigWrites # <<>> => configFile = ConfigWrites[Len(ConfigWrites)].data

C17_Witness ==
    /\ Len(ConfigWrites) = 1
    /\ Cardinality(Matches(ConfigReads[1].data)) = 2
    /\ Cardinality(Matches(configFile)) = 1
    /\ configFile[3] = Globs

ReplyRead == prompts > 0 /\ pc # "question"

\* C18: the readline interface is opened once, at start; at most one question
\* is asked; the step that reads the reply closes the interface, so it is
\* closed before git init, the branch rename or npm install runs; once
\* closed it stays closed.
C18_ReadlineOpenedOnceClosedOnReply ==
    [][/\ prompts' <= 1
       /\ (rlState' = "open" /\ rlState # "open") => (rlState = "none" /\ pc = "start")
       /\ rlState = "closed" => rlState' = "closed"
       /\ pc' = "question" => rlState' = "open"
       /\ ReplyRead' => rlState' = "closed"
       /\ (pc = "question" /\ pc' # "question")
             => (rlState' = "closed" /\ executed' = executed)
       /\ executed' # executed
             => (executed'[Len(executed')].cmd
                    \in {"INITIALIZE_GIT", "CHANGE_BRANCH", "INSTALL_DEPENDENCIES"}
                 => rlState = "closed")]_vars

C18_Witness ==
    /\ rlState = "closed"
    /\ prompts = 1
    /\ Attempted("INITIALIZE_GIT")
    /\ Attempted("CHANGE_BRANCH")
    /\ Attempted("INSTALL_DEPENDENCIES")

BannersPrinted == Len(SelectSeq(console, LAMBDA m : m = Banner))

\* C19: the banner is printed at most once, and only when the question has
\* been answered and npm install has been run; process.exit(0) is reached
\* only with the banner and the success message as the last things printed.
C19_BannerOnceThenExitZero ==
    /\ BannersPrinted <= 1
    /\ Printed(Banner)
          => /\ ReplyRead
             /\ Attempted("INSTALL_DEPENDENCIES")
             /\ pc = "exited" /\ exitCode = 0
    /\ (pc = "exited" /\ exitCode = 0)
          => /\ Len(console) >= 2
             /\ console[Len(console) - 1] = Banner
             /\ console[Len(console)] = SuccessMessage

C19_Witness ==
    /\ pc = "exited"
    /\ exitCode = 0
    /\ BannersPrinted = 1
    /\ Failed("INSTALL_DEPENDENCIES")

====
